---------------------------- MODULE Spec2Model ----------------------------
(***************************************************************************)
(* Model of the content-structuring and quiz-generation pipeline:          *)
(*   transcriber.py  transcribe_youtube_video and its transcript cache     *)
(*   modules.py      structure_transcript, generate_module_title and the   *)
(*                   module cache                                          *)
(*   quizzes.py      CourseDesignerAgent, get_quiz,                        *)
(*                   generate_all_module_quizzes and the quiz cache        *)
(*   main.py         the /modules and /generate_quiz routes                *)
(*                                                                         *)
(* Texts are sequences of one-character strings.  An optional value (a     *)
(* Python None or a value) is the empty sequence or a one-element          *)
(* sequence.  Times are whole seconds.                                     *)
(***************************************************************************)
EXTENDS Integers, Sequences, FiniteSets, TLC

VARIABLES
    transcriptions,    \* transcriber.py table transcriptions: video_id -> optional row
    course_modules,    \* modules.py table course_modules: video_id -> optional row
    module_questions,  \* quizzes.py table module_questions: <<video_id, module_title>> -> row
    last,              \* what the most recent call did and returned
    prev,              \* the call before it, when it was the same request; else Idle
    video,             \* SpecSeg: the video handed to structure_transcript
    qin,               \* SpecQuiz: the arguments handed to generate_quiz_questions
    procs,             \* SpecConc: each running /modules request's position and locals
    temp_audio         \* transcriber.py file temp_audio.wav: absent or the audio it holds

vars == <<transcriptions, course_modules, module_questions, last, prev, video, qin, procs, temp_audio>>

-----------------------------------------------------------------------------
(* Optional values and small helpers *)

None == <<>>

Some(x) == <<x>>

IsNone(o) == o = <<>>

Min(a, b) == IF a < b THEN a ELSE b

Last(s) == s[Len(s)]

\* Python's s[:n] on a sequence.
Take(s, n) == SubSeq(s, 1, Min(n, Len(s)))

-----------------------------------------------------------------------------
(* Python string operations on texts *)

Whitespace == {" ", "\n"}

LowerLetters == <<"a","b","c","d","e","f","g","h","i","j","k","l","m",
                  "n","o","p","q","r","s","t","u","v","w","x","y","z">>

UpperLetters == <<"A","B","C","D","E","F","G","H","I","J","K","L","M",
                  "N","O","P","Q","R","S","T","U","V","W","X","Y","Z">>

IsLower(c) == \E i \in 1..26 : LowerLetters[i] = c

IsUpper(c) == \E i \in 1..26 : UpperLetters[i] = c

IsCased(c) == IsLower(c) \/ IsUpper(c)

ToUpper(c) == IF IsLower(c) THEN UpperLetters[CHOOSE i \in 1..26 : LowerLetters[i] = c] ELSE c

ToLower(c) == IF IsUpper(c) THEN LowerLetters[CHOOSE i \in 1..26 : UpperLetters[i] = c] ELSE c

\* str.lstrip(): drop the leading whitespace.
RECURSIVE LStrip(_)
LStrip(s) == IF s # <<>> /\ s[1] \in Whitespace THEN LStrip(Tail(s)) ELSE s

\* str.rstrip(chars): drop the trailing characters that are in chars.
RECURSIVE RStripChars(_, _)
RStripChars(s, chars) ==
    IF s # <<>> /\ Last(s) \in chars THEN RStripChars(SubSeq(s, 1, Len(s) - 1), chars) ELSE s

\* str.strip()
Strip(s) == RStripChars(LStrip(s), Whitespace)

\* str.title(): a cased character is upper-cased when the character before it
\* is not cased, lower-cased otherwise.
TitleCase(s) ==
    [i \in 1..Len(s) |->
        IF i > 1 /\ IsCased(s[i - 1]) THEN ToLower(s[i]) ELSE ToUpper(s[i])]

\* str.split(): the maximal runs of non-whitespace characters.
\* The positions where a run starts, the position where the run from i ends,
\* and the runs in order.
WordStarts(s) ==
    {i \in 1..Len(s) : s[i] \notin Whitespace /\ (i = 1 \/ s[i - 1] \in Whitespace)}

WordEnd(s, i) ==
    CHOOSE j \in i..Len(s) :
        /\ j = Len(s) \/ s[j + 1] \in Whitespace
        /\ \A k \in i..(j - 1) : s[k + 1] \notin Whitespace

WordAt(s, starts, k) ==
    WordEnd(s, CHOOSE i \in starts : Cardinality({j \in starts : j < i}) = k - 1)

SplitAt(s, starts) ==
    [k \in 1..Cardinality(starts) |->
        SubSeq(s, CHOOSE i \in starts : Cardinality({j \in starts : j < i}) = k - 1,
               WordAt(s, starts, k))]

Split(s) == SplitAt(s, WordStarts(s))

\* ' '.join(parts)
RECURSIVE JoinSpace(_)
JoinSpace(parts) ==
    IF parts = <<>> THEN <<>>
    ELSE IF Len(parts) = 1 THEN parts[1]
    ELSE parts[1] \o <<" ">> \o JoinSpace(Tail(parts))


-----------------------------------------------------------------------------
(* JSON text: json.dumps / json.loads of JSON-native values *)

\* json.dumps(v): the text that denotes v.
JsonDumps(v) == [json |-> v]

\* json.loads(t) of a text json.dumps produced.
JsonLoads(t) == t.json

-----------------------------------------------------------------------------
(* The generative-model call, as call_nebius_llm returns it *)

\* None: the API call raised (call_nebius_llm catches it and returns None).
NoResponse == [kind |-> "none"]

\* A response envelope without a usable choices[0].message.content string:
\* reading or using it raises.
BadEnvelope == [kind |-> "bad"]

\* A response envelope whose choices[0].message.content is c.
Completion(c) == [kind |-> "ok", content |-> c]

-----------------------------------------------------------------------------
(* modules.py: title generation *)

TITLE_MODEL == "meta-llama/Llama-3.3-70B-Instruct"

\* TitleGenerator.generate_title: the stripped completion, or None when the
\* call returned None or reading the envelope raised.
GenerateTitle(text, resp) ==
    IF resp.kind = "ok" THEN Some(Strip(resp.content)) ELSE None

\* The text generate_module_title hands to the generator.
FullText(content) == JoinSpace([i \in 1..Len(content) |-> content[i].text])

\* "title = generator.generate_title(full_text)": the argument of the one
\* call generate_module_title makes to the generator.
TitleArgument(full_text) == full_text

\* A fallback that keeps nine words.
FallbackTitleNine(full_text) ==
    LET words == Split(full_text)
    IN  IF Len(words) > 10
        THEN JoinSpace(Take(words, 9)) \o <<".", ".", ".">>
        ELSE full_text

\* "words = full_text.split(); if len(words) > 10: return ' '.join(words[:10])
\* + '...'; return full_text"
FallbackTitle(full_text) ==
    LET words == Split(full_text)
    IN  IF Len(words) > 10
        THEN JoinSpace(Take(words, 10)) \o <<".", ".", ".">>
        ELSE full_text

generate_module_title(content, resp) ==
    LET full_text == FullText(content)
        title == GenerateTitle(TitleArgument(full_text), resp)
    IN  IF title # None /\ title[1] # <<>>
        THEN RStripChars(TitleCase(title[1]), {".", "!", "?"})
        ELSE FallbackTitle(full_text)

-----------------------------------------------------------------------------
(* modules.py: the segmentation loop of structure_transcript *)

CHUNK_SIZE == 600

NewModule == [title |-> <<>>, content |-> <<>>, start_time |-> 0, end_time |-> 0]

\* A finalization that reuses the response to the first title call.
FinalizeModuleFirstTitle(st, resps) ==
    LET cur == st.current
        done == [cur EXCEPT !.end_time = Last(cur.content).end,
                            !.title = generate_module_title(cur.content, resps[1])]
    IN  [st EXCEPT !.modules = Append(st.modules, done), !.calls = st.calls + 1]

\* "Finalize current module": end_time and title are set, the module is appended.
\* resps[k] is the model's response to the k-th title call of this run.
FinalizeModule(st, resps) ==
    LET cur == st.current
        done == [cur EXCEPT !.end_time = Last(cur.content).end,
                            !.title = generate_module_title(cur.content, resps[st.calls + 1])]
    IN  [st EXCEPT !.modules = Append(st.modules, done), !.calls = st.calls + 1]

\* A boundary test that also admits a start exactly CHUNK_SIZE after start_time.
InChunkInclusive(entry, cur) == entry.start - cur.start_time <= 600

\* A boundary test against the start of the module's latest segment.
InChunkFromPrevious(entry, cur) == entry.start - Last(cur.content).start < 600

\* A boundary test with a chunk of ten seconds.
InChunkTenSeconds(entry, cur) == entry.start - cur.start_time < 10

\* Whether entry still belongs to the current module.
InChunk(entry, cur) == entry.start - cur.start_time < CHUNK_SIZE

\* A new module that forgets the entry that closed the previous one.
SeedModuleEmpty(entry) ==
    [title |-> <<>>, content |-> <<>>, start_time |-> entry.start, end_time |-> 0]

\* A new module whose start_time is left at its initial 0.
SeedModuleNoStart(entry) ==
    [title |-> <<>>, content |-> <<entry>>, start_time |-> 0, end_time |-> 0]

\* The module a closing entry seeds.
SeedModule(entry) ==
    [title |-> <<>>, content |-> <<entry>>, start_time |-> entry.start, end_time |-> 0]

\* A loop body that closes a module with the end of the entry that closes it.
LoopBodyLateEnd(st, entry, resps) ==
    IF st.current.content = <<>>
    THEN [st EXCEPT !.current = [st.current EXCEPT !.start_time = entry.start,
                                                   !.content = <<entry>>]]
    ELSE IF entry.start - st.current.start_time < 600
    THEN [st EXCEPT !.current.content = Append(st.current.content, entry)]
    ELSE LET fin == FinalizeModule(st, resps)
             k == Len(fin.modules)
         IN  [fin EXCEPT !.modules[k].end_time = entry.end,
                         !.current = [title |-> <<>>, content |-> <<entry>>,
                                      start_time |-> entry.start, end_time |-> 0]]

\* One iteration of "for entry in video['transcript']".
LoopBody(st, entry, resps) ==
    IF st.current.content = <<>>
    THEN [st EXCEPT !.current = [st.current EXCEPT !.start_time = entry.start,
                                                   !.content = <<entry>>]]
    ELSE IF InChunk(entry, st.current)
    THEN [st EXCEPT !.current.content = Append(st.current.content, entry)]
    ELSE [FinalizeModule(st, resps) EXCEPT !.current = SeedModule(entry)]

RECURSIVE LoopFrom(_, _, _, _)
LoopFrom(st, transcript, i, resps) ==
    IF i > Len(transcript) THEN st
    ELSE LoopFrom(LoopBody(st, transcript[i], resps), transcript, i + 1, resps)

\* A return that leaves the module still being filled out of the list.
AddLastModuleDropped(st, resps) == st

\* A return that closes the module being filled even when it is empty.
AddLastModulePlaceholder(st, resps) ==
    IF st.current.content # <<>> THEN FinalizeModule(st, resps)
    ELSE [st EXCEPT !.modules = Append(st.modules, st.current)]

\* "Add the last module if it has content".
AddLastModule(st, resps) ==
    IF st.current.content # <<>> THEN FinalizeModule(st, resps) ELSE st

\* The miss path of structure_transcript up to the cache write: the modules
\* and the number of title calls made.
SegmentTranscript(transcript, resps) ==
    AddLastModule(LoopFrom([modules |-> <<>>, current |-> NewModule, calls |-> 0],
                           transcript, 1, resps), resps)

-----------------------------------------------------------------------------
(* modules.py: the module cache and structure_transcript *)

\* The key of a row inserted with video_id None (SQL NULL): no lookup finds it.
NullKey == "NULL"

\* The characters of the class [a-zA-Z0-9_-].
IdChars ==
    {LowerLetters[i] : i \in 1..26} \cup {UpperLetters[i] : i \in 1..26}
    \cup {"0", "1", "2", "3", "4", "5", "6", "7", "8", "9", "_", "-"}

\* The length of the identifier token, {11} in the pattern.
ID_LENGTH == 11

\* The alternatives of the pattern's optional group (?:embed\/|watch\?v=|\/)?,
\* in the order the regex engine tries them; the last is the group left out.
PrefixAlternatives == <<"embed/", "watch?v=", "/", "">>

\* The text of a URL [prefix, id] of the model.
UrlText(url) == url.prefix \o url.id

\* ID_LENGTH characters of the class stand at position q of s.
TokenAt(s, q) ==
    /\ q + ID_LENGTH - 1 <= Len(s)
    /\ \A k \in 0..(ID_LENGTH - 1) : SubSeq(s, q + k, q + k) \in IdChars

\* The pattern matches at position p of s with the a-th alternative.
MatchAt(s, p, a) ==
    /\ p + Len(PrefixAlternatives[a]) - 1 <= Len(s)
    /\ SubSeq(s, p, p + Len(PrefixAlternatives[a]) - 1) = PrefixAlternatives[a]
    /\ TokenAt(s, p + Len(PrefixAlternatives[a]))

\* The first alternative with which the pattern matches at position p, 0 if
\* it does not match there.
FirstAlternativeAt(s, p) ==
    IF MatchAt(s, p, 1) THEN 1
    ELSE IF MatchAt(s, p, 2) THEN 2
    ELSE IF MatchAt(s, p, 3) THEN 3
    ELSE IF MatchAt(s, p, 4) THEN 4
    ELSE 0

\* group(1) of the match at p with the a-th alternative: the token after it.
GroupOne(s, p, a) ==
    SubSeq(s, p + Len(PrefixAlternatives[a]),
              p + Len(PrefixAlternatives[a]) + ID_LENGTH - 1)

\* A search that tries the pattern at position p only, as re.match does.
SearchFromAnchored(s, p) ==
    IF p + ID_LENGTH - 1 > Len(s) THEN None
    ELSE IF FirstAlternativeAt(s, p) # 0 THEN Some(GroupOne(s, p, FirstAlternativeAt(s, p)))
    ELSE None

\* re.search: the leftmost position where the pattern matches, and there the
\* first alternative that does; None when it matches nowhere.
RECURSIVE SearchFrom(_, _)
SearchFrom(s, p) ==
    IF p + ID_LENGTH - 1 > Len(s) THEN None
    ELSE IF FirstAlternativeAt(s, p) # 0 THEN Some(GroupOne(s, p, FirstAlternativeAt(s, p)))
    ELSE SearchFrom(s, p + 1)

\* extract_video_id on a text: "match = re.search(pattern, url); if match:
\* return match.group(1); return None"
SearchVideoId(s) == SearchFrom(s, 1)

\* extract_video_id on the URLs of the model, [prefix, id]: the pattern's
\* 11-character token is the first 11 characters of the id part; the prefixes
\* used hold no run of 11 identifier characters.
extract_video_id(url) ==
    IF Len(url.id) >= 11 THEN Some(SubSeq(url.id, 1, 11)) ELSE None

\* get_cached_modules: the row's modules column parsed, or None without a row.
get_cached_modules(cm, video_id) ==
    IF video_id = None \/ cm[video_id[1]] = None THEN None
    ELSE Some(JsonLoads(cm[video_id[1]][1].modules))

\* A save that stores every row without its key.
save_modules_to_cache_unkeyed(cm, video_id, modules) ==
    [cm EXCEPT ![NullKey] = Some([modules |-> JsonDumps(modules)])]

\* save_modules_to_cache: INSERT OR REPLACE by primary key video_id.
save_modules_to_cache(cm, video_id, modules) ==
    LET key == IF video_id = None THEN NullKey ELSE video_id[1]
    IN  [cm EXCEPT ![key] = Some([modules |-> JsonDumps(modules)])]

\* Python's truth value of an optional list: neither None nor empty.
Truthy(o) == o # None /\ o[1] # <<>>

\* structure_transcript(video): the cache afterwards, the value returned and
\* what the call did.  The model answers the k-th title call with resps[k].
structure_transcript(cm, vid, resps) ==
    LET video_id == extract_video_id(vid.embed_url)
        cached_modules == get_cached_modules(cm, video_id)
        st == SegmentTranscript(vid.transcript, resps)
    IN  IF Truthy(cached_modules)
        THEN [cache |-> cm, modules |-> cached_modules[1], hit |-> TRUE,
              segmented |-> 0, titleCalls |-> 0, writes |-> 0]
        ELSE [cache |-> save_modules_to_cache(cm, video_id, st.modules),
              modules |-> st.modules, hit |-> FALSE,
              segmented |-> 1, titleCalls |-> st.calls, writes |-> 1]

-----------------------------------------------------------------------------
(* quizzes.py: CourseDesignerAgent *)

QUIZ_MODEL == "deepseek-ai/DeepSeek-V3"

\* The default of generate_quiz_questions' num_questions.
DEFAULT_NUM_QUESTIONS == 2

\* A completion is a sequence of units: the opening fence with its tag, a bare
\* fence, a line break, or the text of a JSON value.
FenceJson == "[3 backquotes]json"

Fence == "[3 backquotes]"

Newline == "\n"

\* The text of a JSON array holding one well-formed question object.
QuestionArrayText == "[{question}]"

\* The text of a JSON array holding one question object whose correct_answer
\* is "E", a label its options do not have.
OddQuestionArrayText == "[{question, correct_answer: E}]"

\* The text of a JSON object (not an array).
JsonObjectText == "{}"

CompletionUnits ==
    {FenceJson, Fence, Newline, QuestionArrayText, OddQuestionArrayText, JsonObjectText}

ModelQuestion ==
    [question |-> <<"W", "h", "y", "?">>,
     options |-> [l \in {"A", "B", "C", "D"} |-> <<"o", "p", "t">>],
     correct_answer |-> "B",
     explanation |-> <<"e", "x", "p", "l">>]

OddQuestion == [ModelQuestion EXCEPT !.correct_answer = "E"]

\* The dict json.loads makes of JsonObjectText.
EmptyDict == [dict |-> {}]

\* What json.loads makes of each JSON text: the Python type and the value.
JsonValueOf(t) ==
    IF t = QuestionArrayText THEN [type |-> "list", value |-> <<ModelQuestion>>]
    ELSE IF t = OddQuestionArrayText THEN [type |-> "list", value |-> <<OddQuestion>>]
    ELSE [type |-> "dict", value |-> EmptyDict]

JsonTexts == {QuestionArrayText, OddQuestionArrayText, JsonObjectText}

\* gen_prompt: the prompt is the fixed template with the three values filled in.
gen_prompt(text, difficulty, num_questions) ==
    [template |-> "Create {num_questions} {difficulty} multiple-choice questions",
     num_questions |-> num_questions, difficulty |-> difficulty, text |-> text]

\* Where a unit begins with the three backquotes of a closing fence.
StartsWithFence(u) == u \in {Fence, FenceJson}

\* re.search(<fence>json\n(.*?)\n<fence>, content, re.DOTALL), <fence> being three
\* backquotes: the leftmost opening <fence>json\n that has a later \n<fence>,
\* and the nearest such; None if none.
\* The value is the body, group(1).
\* A search whose closing fence need not be preceded by a line break.
RegexClosesOptionalNewline(c, i) ==
    {j \in (i + 2)..Len(c) :
        \/ StartsWithFence(c[j])
        \/ c[j] = Newline /\ j < Len(c) /\ StartsWithFence(c[j + 1])}

RegexCloses(c, i) == {j \in (i + 2)..(Len(c) - 1) : c[j] = Newline /\ StartsWithFence(c[j + 1])}

RegexOpens(c) ==
    {i \in 1..(Len(c) - 1) : c[i] = FenceJson /\ c[i + 1] = Newline /\ RegexCloses(c, i) # {}}

SetMin(S) == CHOOSE x \in S : \A y \in S : x <= y

\* The body between the opening at i and the nearest close after it.
BlockBody(c, i, closes) == SubSeq(c, i + 2, SetMin(closes) - 1)

SearchFromOpens(c, opens) ==
    IF opens = {} THEN None
    ELSE Some(BlockBody(c, SetMin(opens), RegexCloses(c, SetMin(opens))))

SearchJsonBlock(c) == SearchFromOpens(c, RegexOpens(c))

\* json.loads(body): leading and trailing whitespace is skipped; what is left
\* must be one JSON value.  [exc |-> TRUE] when json.loads raises.
RECURSIVE LStripNewlines(_)
LStripNewlines(b) == IF b # <<>> /\ b[1] = Newline THEN LStripNewlines(Tail(b)) ELSE b

StripNewlines(b) == RStripChars(LStripNewlines(b), {Newline})

JsonLoadsStripped(b) ==
    IF Len(b) = 1 /\ b[1] \in JsonTexts
    THEN [exc |-> FALSE, type |-> JsonValueOf(b[1]).type, value |-> JsonValueOf(b[1]).value]
    ELSE [exc |-> TRUE, type |-> "list", value |-> <<>>]

JsonLoadsBody(body) == JsonLoadsStripped(StripNewlines(body))

FocusPrefix ==
    <<"W","h","a","t"," ","i","s"," ","t","h","e"," ","m","a","i","n"," ",
      "f","o","c","u","s"," ","o","f"," ">>

\* A fallback question that quotes one character more of the text.
create_fallback_question_16(text) ==
    [question |-> FocusPrefix \o Take(text, 16) \o <<"?">>,
     options |-> [l \in {"A", "B", "C", "D"} |-> <<"O","p","t","i","o","n"," ", l>>],
     correct_answer |-> "A",
     explanation |-> "Fallback question due to generation error."]

\* CourseDesignerAgent._create_fallback_question
create_fallback_question(text) ==
    [question |-> FocusPrefix \o Take(text, 15) \o <<"?">>,
     options |-> [l \in {"A", "B", "C", "D"} |-> <<"O","p","t","i","o","n"," ", l>>],
     correct_answer |-> "A",
     explanation |-> "Fallback question due to generation error."]

\* "if json_block: questions = json.loads(json_block.group(1)) else: questions =
\* [self._create_fallback_question(text)]"
QuestionsFromBlock(text, json_block) ==
    IF json_block # None THEN JsonLoadsBody(json_block[1])
    ELSE [exc |-> FALSE, type |-> "list", value |-> <<create_fallback_question(text)>>]

\* A try block in which a missing response is read as an empty completion.
QuizTryEmptyContent(text, resp) ==
    IF resp.kind = "bad" THEN [exc |-> TRUE, type |-> "list", value |-> <<>>]
    ELSE QuestionsFromBlock(text, SearchJsonBlock(IF resp.kind = "none" THEN <<>>
                                                  ELSE resp.content))

\* The try block of generate_quiz_questions: the questions, or exc when a
\* statement raises.  With no response, content is never bound and the
\* logging of it raises; a bad envelope raises where it is read.
QuizTry(text, resp) ==
    IF resp.kind # "ok" THEN [exc |-> TRUE, type |-> "list", value |-> <<>>]
    ELSE QuestionsFromBlock(text, SearchJsonBlock(resp.content))

\* "return questions" / "except Exception: return []".  type is the Python
\* type of the value returned; caught tells that the except clause ran.
QuizReturn(call, try) ==
    [raised |-> FALSE, caught |-> try.exc,
     type |-> IF try.exc THEN "list" ELSE try.type,
     value |-> IF try.exc THEN <<>> ELSE try.value, calls |-> <<call>>]

\* A generator that checks the text only, not the count.
generate_quiz_questions_any_count(text, difficulty, num_questions, resp) ==
    IF text = <<>>
    THEN [raised |-> FALSE, caught |-> FALSE, type |-> "list", value |-> <<>>, calls |-> <<>>]
    ELSE QuizReturn([model |-> QUIZ_MODEL,
                     prompt |-> gen_prompt(text, difficulty, num_questions),
                     response |-> resp],
                    QuizTry(text, resp))

\* generate_quiz_questions(text, difficulty, num_questions) when the model
\* answers resp: the value returned, whether an exception left the function,
\* and the model calls made.
generate_quiz_questions(text, difficulty, num_questions, resp) ==
    IF text = <<>> \/ num_questions < 1
    THEN [raised |-> FALSE, caught |-> FALSE, type |-> "list", value |-> <<>>, calls |-> <<>>]
    ELSE QuizReturn([model |-> QUIZ_MODEL,
                     prompt |-> gen_prompt(text, difficulty, num_questions),
                     response |-> resp],
                    QuizTry(text, resp))

-----------------------------------------------------------------------------
(* transcriber.py: the transcript cache and transcribe_youtube_video *)

\* The URL main.py builds for a video_id parameter.
WatchUrl(id) == [prefix |-> "https://www.youtube.com/watch?v=", id |-> id]

\* The embed URL transcribe_youtube_video builds for the id yt-dlp reports.
EmbedUrl(id) == [prefix |-> "https://www.youtube.com/embed/", id |-> id]

\* get_transcription_from_db: the row as a video dictionary, or None.
get_transcription_from_db(tc, video_id) ==
    IF tc[video_id] = None THEN None
    ELSE LET row == tc[video_id][1]
         IN  Some([title |-> row.title, embed_url |-> row.embed_url,
                   duration |-> row.duration, transcript |-> JsonLoads(row.transcript)])

\* save_transcription_to_db: INSERT OR REPLACE by primary key video_id.
save_transcription_to_db(tc, video_id, video_info) ==
    [tc EXCEPT ![video_id] = Some([title |-> video_info.title,
                                   embed_url |-> video_info.embed_url,
                                   duration |-> video_info.duration,
                                   transcript |-> JsonDumps(video_info.transcript)])]

\* transcribe_youtube_video(url) when the provider behaves as prov: yt-dlp's
\* extract_info raises, the audio download raises, or Whisper returns
\* prov.segments.  Every exception is caught and None returned.
transcribe_youtube_video(tc, url, prov) ==
    IF prov.kind = "extract_fails"
    THEN [cache |-> tc, value |-> None, transcribed |-> 0]
    ELSE LET video_id == url.id
             cached_result == get_transcription_from_db(tc, video_id)
             video_info == [title |-> <<"v">>, embed_url |-> EmbedUrl(video_id),
                            duration |-> 0, transcript |-> prov.segments]
         IN  IF cached_result # None
             THEN [cache |-> tc, value |-> cached_result, transcribed |-> 0]
             ELSE IF prov.kind = "download_fails"
             THEN [cache |-> tc, value |-> None, transcribed |-> 0]
             ELSE [cache |-> save_transcription_to_db(tc, video_id, video_info),
                   value |-> Some(video_info), transcribed |-> 1]

-----------------------------------------------------------------------------
(* quizzes.py: the quiz cache, get_quiz and generate_all_module_quizzes *)

\* get_module_text: the title, if any, and the segment texts, joined by single
\* spaces and stripped.
get_module_text(module) ==
    LET text_parts == (IF module.title # <<>> THEN <<module.title>> ELSE <<>>)
                      \o [i \in 1..Len(module.content) |-> module.content[i].text]
    IN  Strip(JoinSpace(text_parts))

\* QuizCache.get_cached_quiz: the row selected by video_id and module_title.
get_cached_quiz(mq, video_id, module_title) ==
    IF <<video_id, module_title>> \in DOMAIN mq
    THEN Some(JsonLoads(mq[<<video_id, module_title>>].questions))
    ELSE None

\* QuizCache.save_quiz_to_cache: INSERT OR REPLACE by the table's primary key
\* (video_id, module_title).
save_quiz_to_cache(mq, video_id, module_title, difficulty, questions) ==
    LET key == <<video_id, module_title>>
        row == [difficulty |-> difficulty, questions |-> JsonDumps(questions)]
    IN  [k \in DOMAIN mq \cup {key} |-> IF k = key THEN row ELSE mq[k]]

\* The body of the loop of generate_all_module_quizzes once the questions gen
\* are generated: the quiz is appended and saved.  st holds the quiz cache,
\* the module_quizzes list and the model calls made so far.
QuizLoopSave(st, module, gen, video_id, difficulty) ==
    [mq |-> save_quiz_to_cache(st.mq, video_id, module.title, difficulty, gen.value),
     module_quizzes |-> Append(st.module_quizzes,
                               [module_title |-> module.title, questions |-> gen.value]),
     calls |-> st.calls \o gen.calls]

\* "if not module_text: continue", else generate with the default number of
\* questions; the model answers the k-th call of the run with resps[k].
QuizLoopText(st, module, module_text, video_id, difficulty, resps) ==
    IF module_text = <<>> THEN st
    ELSE QuizLoopSave(st, module,
                      generate_quiz_questions(module_text, difficulty, DEFAULT_NUM_QUESTIONS,
                                              resps[Len(st.calls) + 1]),
                      video_id, difficulty)

RECURSIVE QuizLoopFrom(_, _, _, _, _, _)
QuizLoopFrom(st, modules, i, video_id, difficulty, resps) ==
    IF i > Len(modules) THEN st
    ELSE QuizLoopFrom(QuizLoopText(st, modules[i], get_module_text(modules[i]),
                                   video_id, difficulty, resps),
                      modules, i + 1, video_id, difficulty, resps)

GenerateAllReturn(st) ==
    [raised |-> FALSE, error |-> "",
     mq |-> st.mq, module_quizzes |-> st.module_quizzes, calls |-> st.calls]

\* A generate_all_module_quizzes that returns no quizzes when there are no modules.
GenerateAllForSilent(mq, modules, video_id, difficulty, resps) ==
    IF ~Truthy(modules)
    THEN [raised |-> FALSE, error |-> "",
          mq |-> mq, module_quizzes |-> <<>>, calls |-> <<>>]
    ELSE GenerateAllReturn(QuizLoopFrom([mq |-> mq, module_quizzes |-> <<>>, calls |-> <<>>],
                                        modules[1], 1, video_id, difficulty, resps))

\* generate_all_module_quizzes once get_cached_modules has answered modules:
\* ValueError when that is None or an empty list.
GenerateAllFor(mq, modules, video_id, difficulty, resps) ==
    IF ~Truthy(modules)
    THEN [raised |-> TRUE, error |-> "No modules found in cache",
          mq |-> mq, module_quizzes |-> <<>>, calls |-> <<>>]
    ELSE GenerateAllReturn(QuizLoopFrom([mq |-> mq, module_quizzes |-> <<>>, calls |-> <<>>],
                                        modules[1], 1, video_id, difficulty, resps))

\* generate_all_module_quizzes(video_id, difficulty)
generate_all_module_quizzes(mq, cm, video_id, difficulty, resps) ==
    GenerateAllFor(mq, get_cached_modules(cm, Some(video_id)), video_id, difficulty, resps)

\* A search that returns the first quiz, whatever its title.
FirstQuizAny(quizzes, module_title) ==
    IF quizzes = <<>> THEN None ELSE Some(quizzes[1].questions)

\* "for quiz in quizzes: if quiz['module_title'] == module_title: return ...":
\* the first match's questions; None when the loop ends without one.
RECURSIVE FirstQuizFor(_, _)
FirstQuizFor(quizzes, module_title) ==
    IF quizzes = <<>> THEN None
    ELSE IF quizzes[1].module_title = module_title THEN Some(quizzes[1].questions)
    ELSE FirstQuizFor(Tail(quizzes), module_title)

\* The miss path of get_quiz once generate_all_module_quizzes has returned or
\* raised (the exception leaves get_quiz).
GetQuizMiss(mq, all, module_title) ==
    IF all.raised
    THEN [raised |-> TRUE, error |-> all.error, value |-> None, hit |-> FALSE,
          served |-> "", mq |-> mq, calls |-> <<>>, generated |-> <<>>]
    ELSE [raised |-> FALSE, error |-> "",
          value |-> FirstQuizFor(all.module_quizzes, module_title), hit |-> FALSE,
          served |-> "", mq |-> all.mq, calls |-> all.calls,
          generated |-> all.module_quizzes]

\* A get_quiz that stamps the row it serves with the difficulty asked for.
GetQuizForRestamping(mq, cm, cached_questions, video_id, module_title, difficulty, resps) ==
    IF Truthy(cached_questions)
    THEN [raised |-> FALSE, error |-> "", value |-> cached_questions, hit |-> TRUE,
          served |-> mq[<<video_id, module_title>>].difficulty,
          mq |-> save_quiz_to_cache(mq, video_id, module_title, difficulty,
                                    cached_questions[1]),
          calls |-> <<>>, generated |-> <<>>]
    ELSE GetQuizMiss(mq, generate_all_module_quizzes(mq, cm, video_id, difficulty, resps),
                     module_title)

\* get_quiz once the cache lookup has answered cached_questions.  served is
\* the difficulty column of the row a cache hit returned.
GetQuizFor(mq, cm, cached_questions, video_id, module_title, difficulty, resps) ==
    IF Truthy(cached_questions)
    THEN [raised |-> FALSE, error |-> "", value |-> cached_questions, hit |-> TRUE,
          served |-> mq[<<video_id, module_title>>].difficulty,
          mq |-> mq, calls |-> <<>>, generated |-> <<>>]
    ELSE GetQuizMiss(mq, generate_all_module_quizzes(mq, cm, video_id, difficulty, resps),
                     module_title)

\* get_quiz(video_id, module_title, difficulty): the quiz cache afterwards, the
\* value returned (None or a list) or the exception raised, and what the call
\* did.
get_quiz(mq, cm, video_id, module_title, difficulty, resps) ==
    GetQuizFor(mq, cm, get_cached_quiz(mq, video_id, module_title),
               video_id, module_title, difficulty, resps)

-----------------------------------------------------------------------------
(* Inputs *)

VideoIds == {"vid_0000001", "vid_0000002"}

CacheKeys == VideoIds \cup {NullKey}

\* The longest transcript structure_transcript is applied to on its own.
MaxSegs == 5

SegStarts == {0, 10, 20, 600, 610, 1200}

SegDurations == {10, 600}

SegText == <<"h", "i">>

\* The non-decreasing sequences of n segment starts.
SortedStarts(n) ==
    {f \in [1..n -> SegStarts] : \A i \in 1..(n - 1) : f[i] <= f[i + 1]}

\* The transcript of the segments that start at starts[i] and last durs[i].
TranscriptOf(starts, durs) ==
    [i \in 1..Len(starts) |->
        [id |-> i, start |-> starts[i], end |-> starts[i] + durs[i], text |-> SegText]]

Digits == <<"1", "2", "3", "4", "5", "6", "7", "8", "9">>

\* The model answers the k-th title call of a run with "part k.".
SegTitleResponses ==
    {[k \in 1..(MaxSegs + 1) |-> Completion(<<"p", "a", "r", "t", " ", Digits[k], ".">>)]}

Idle == [op |-> "none"]

-----------------------------------------------------------------------------
(* SpecSeg: structure_transcript applied to one video, repeatedly *)

EmptyCache == [k \in CacheKeys |-> None]

\* An identifier the provider reports that is shorter than 11 characters.
ShortId == "short"

\* The identifiers of the videos of n segments: the short one comes with the
\* transcripts of at most two segments.
SegVideoIds(n) == IF n <= 2 THEN {"vid_0000001", ShortId} ELSE {"vid_0000001"}

InitSeg ==
    /\ transcriptions = EmptyCache
    /\ course_modules = EmptyCache
    /\ module_questions = <<>>
    /\ last = Idle
    /\ prev = Idle
    /\ qin = Idle
    /\ procs = <<>>
    /\ temp_audio = None
    /\ \E n \in 0..MaxSegs :
       \E starts \in SortedStarts(n) :
       \E durs \in [1..n -> SegDurations] :
       \E id \in SegVideoIds(n) :
           video = [title |-> <<"v">>, embed_url |-> EmbedUrl(id),
                    duration |-> 0, transcript |-> TranscriptOf(starts, durs)]

\* One call structure_transcript(video); the model answers the title calls of
\* the run with resps.
SegStructure ==
    \E resps \in SegTitleResponses :
        LET out == structure_transcript(course_modules, video, resps)
        IN  /\ course_modules' = out.cache
            /\ last' = [op |-> "structure_transcript", input |-> video.transcript,
                        modules |-> out.modules, hit |-> out.hit,
                        segmented |-> out.segmented, titleCalls |-> out.titleCalls,
                        writes |-> out.writes]
            /\ UNCHANGED <<transcriptions, module_questions, prev, video, qin, procs, temp_audio>>

NextSeg == SegStructure

SpecSeg == InitSeg /\ [][NextSeg]_vars

-----------------------------------------------------------------------------
(* Properties of the segmentation (SpecSeg) *)

\* The call missed the module cache.
SegMiss == last.op = "structure_transcript" /\ ~last.hit

\* C21: when no identifier can be extracted from the video reference,
\* structure_transcript rejects the input: it runs no segmentation, writes no
\* module-cache entry and returns no module sequence.
C21_UnparseableRejected ==
    (last.op = "structure_transcript" /\ SearchVideoId(UrlText(video.embed_url)) = None) =>
        /\ last.segmented = 0
        /\ last.writes = 0
        /\ last.modules = <<>>
        /\ course_modules = EmptyCache

\* The key of the module-cache row a call for the video writes.
SegCacheKey ==
    IF video.embed_url.id = ShortId THEN NullKey ELSE video.embed_url.id

\* C26: on a module-cache miss the title generator is called exactly once per
\* emitted module, in module order (the k-th call titles the k-th module), and
\* the module cache is written exactly once, with the sequence that holds
\* every title and that is returned.
C26_TitleOrderAndWrite ==
    SegMiss =>
        /\ last.titleCalls = Len(last.modules)
        /\ \A k \in 1..Len(last.modules) :
               last.modules[k].title = <<"P", "a", "r", "t", " ", Digits[k]>>
        /\ last.writes = 1
        /\ course_modules[SegCacheKey] = Some([modules |-> JsonDumps(last.modules)])

C26_Witness ==
    /\ SegMiss
    /\ Len(last.modules) = 3
    /\ last.titleCalls = 3
    /\ last.modules[3].title = <<"P", "a", "r", "t", " ", "3">>

\* C30: in every emitted module, every segment starts less than CHUNK_SIZE
\* (600 s) after the module's start_time.
C30_ChunkThreshold ==
    last.op = "structure_transcript" =>
        \A k \in 1..Len(last.modules) :
            \A i \in 1..Len(last.modules[k].content) :
                last.modules[k].content[i].start - last.modules[k].start_time < 600

\* A module of three segments, the last of which starts late in the chunk.
C30_Witness ==
    /\ last.op = "structure_transcript"
    /\ \E k \in 1..Len(last.modules) :
           /\ Len(last.modules[k].content) >= 2
           /\ last.modules[k].start_time = 10
           /\ Last(last.modules[k].content).start = 600

\* C32: structure_transcript on a transcript without segments returns the
\* empty module list and makes no title call.
C32_EmptyTranscript ==
    (last.op = "structure_transcript" /\ last.input = <<>>) =>
        /\ last.modules = <<>>
        /\ last.titleCalls = 0

\* The call on an empty transcript has returned and stored the empty list.
C32_Witness ==
    /\ last.op = "structure_transcript"
    /\ last.input = <<>>
    /\ ~last.hit
    /\ last.writes = 1
    /\ \E k \in CacheKeys : course_modules[k] = Some([modules |-> JsonDumps(<<>>)])

\* C39: of the modules emitted from one transcript, every module after the
\* first starts at least CHUNK_SIZE seconds after the start of the module
\* before it.
C39_StartSpacing ==
    SegMiss =>
        \A k \in 2..Len(last.modules) :
            last.modules[k].start_time >= last.modules[k - 1].start_time + CHUNK_SIZE

\* Three modules, each starting exactly CHUNK_SIZE after the one before, the
\* first and the second of two segments.
C39_Witness ==
    /\ SegMiss
    /\ Len(last.modules) = 3
    /\ last.modules[1].start_time = 0
    /\ last.modules[2].start_time = 600
    /\ last.modules[3].start_time = 1200
    /\ Len(last.modules[1].content) = 2
    /\ Len(last.modules[2].content) = 2

RECURSIVE ConcatContents(_)
ConcatContents(mods) ==
    IF mods = <<>> THEN <<>> ELSE mods[1].content \o ConcatContents(Tail(mods))


\* C1: on a module-cache miss with a non-empty transcript, the contents of the
\* emitted modules, concatenated in module order, are the input segment
\* sequence: same order, nothing duplicated, nothing dropped.
C1_Partition ==
    (SegMiss /\ last.input # <<>>) => ConcatContents(last.modules) = last.input

C1_Witness ==
    /\ SegMiss
    /\ Len(last.input) >= 4
    /\ Len(last.modules) >= 2
    /\ \E k \in 1..Len(last.modules) : Len(last.modules[k].content) >= 2

StartsOf(transcript) == [i \in 1..Len(transcript) |-> transcript[i].start]

EndsOf(transcript) == [i \in 1..Len(transcript) |-> transcript[i].end]

\* C6: a segment stays in the current module only while its start is strictly
\* less than CHUNK_SIZE after the module's start_time, and a module after the
\* first is seeded by a segment whose start is CHUNK_SIZE or more after the
\* previous module's start_time; starts [0,10,20,600,610] (each 10 s long) give
\* exactly two modules, of 3 segments from 0 and of 2 segments from 600.
C6_Boundary ==
    SegMiss =>
        /\ \A k \in 1..Len(last.modules) :
              LET m == last.modules[k]
              IN  /\ \A j \in 2..Len(m.content) :
                        m.content[j].start - m.start_time < CHUNK_SIZE
                  /\ k > 1 => m.content[1].start - last.modules[k - 1].start_time >= CHUNK_SIZE
        /\ (StartsOf(last.input) = <<0, 10, 20, 600, 610>>
            /\ EndsOf(last.input) = <<10, 20, 30, 610, 620>>)
           => /\ Len(last.modules) = 2
              /\ Len(last.modules[1].content) = 3
              /\ last.modules[1].start_time = 0
              /\ Len(last.modules[2].content) = 2
              /\ last.modules[2].start_time = 600

C6_Witness ==
    /\ SegMiss
    /\ StartsOf(last.input) = <<0, 10, 20, 600, 610>>
    /\ EndsOf(last.input) = <<10, 20, 30, 610, 620>>
    /\ Len(last.modules) = 2

WellFormedModule(m) ==
    /\ m.content # <<>>
    /\ m.start_time = m.content[1].start
    /\ m.end_time = Last(m.content).end

CachedModuleLists ==
    {JsonLoads(course_modules[k][1].modules) : k \in {x \in CacheKeys : course_modules[x] # None}}

\* C7: every module structure_transcript returns and every module stored in
\* the module cache has non-empty content, start_time equal to its first
\* segment's start and end_time equal to its last segment's end.
C7_WellFormed ==
    /\ last.op = "structure_transcript" =>
          \A k \in 1..Len(last.modules) : WellFormedModule(last.modules[k])
    /\ \A mods \in CachedModuleLists :
          \A k \in 1..Len(mods) : WellFormedModule(mods[k])

C7_Witness ==
    /\ SegMiss
    /\ Len(last.modules) >= 2
    /\ last.modules[2].start_time > 0
    /\ \E mods \in CachedModuleLists : Len(mods) >= 2

\* The transcripts whose segments do not overlap one another.
Disjoint(transcript) ==
    \A i \in 1..(Len(transcript) - 1) : transcript[i].end <= transcript[i + 1].start

NonOverlapping(mods) ==
    \A k \in 1..(Len(mods) - 1) : mods[k].end_time <= mods[k + 1].start_time

\* C8 as stated: for every transcript with non-decreasing start and
\* end >= start, consecutive emitted modules satisfy
\* previous.end_time <= next.start_time.
C8_NonOverlapAsStated == SegMiss => NonOverlapping(last.modules)

\* C8 amended: when in addition no segment ends after the next segment
\* starts, consecutive emitted modules satisfy previous.end_time <= next.start_time.
C8_NonOverlapDisjoint ==
    (SegMiss /\ Disjoint(last.input)) => NonOverlapping(last.modules)

C8_Witness ==
    /\ SegMiss
    /\ Disjoint(last.input)
    /\ Len(last.modules) >= 3

-----------------------------------------------------------------------------
(* SpecQuiz: generate_quiz_questions applied to one set of arguments *)

\* The longest completion, in units.
MaxCompletionLen == 5

Difficulties == {"easy", "medium", "hard"}

QuizTexts ==
    {<<>>,
     <<"T","e","s","t"," ","t","e","x","t">>,
     <<"P","y","t","h","o","n"," ","i","s"," ","d","y","n","a","m","i","c">>}

QuizCounts == {0, 2}

QuizCompletions == UNION {[1..n -> CompletionUnits] : n \in 0..MaxCompletionLen}

QuizResponses == {NoResponse, BadEnvelope} \cup {Completion(c) : c \in QuizCompletions}

InitQuiz ==
    /\ transcriptions = EmptyCache
    /\ course_modules = EmptyCache
    /\ module_questions = <<>>
    /\ last = Idle
    /\ prev = Idle
    /\ video = Idle
    /\ qin \in [text : QuizTexts, difficulty : {"easy", "hard"}, num_questions : QuizCounts]
    /\ procs = <<>>
    /\ temp_audio = None

\* One call generate_quiz_questions(text, difficulty, num_questions), which the
\* model answers with resp.
QuizGenerate ==
    /\ last = Idle
    /\ \E resp \in QuizResponses :
        LET out == generate_quiz_questions(qin.text, qin.difficulty, qin.num_questions, resp)
        IN  /\ last' = [op |-> "generate_quiz_questions", text |-> qin.text,
                        difficulty |-> qin.difficulty, num_questions |-> qin.num_questions,
                        raised |-> out.raised, caught |-> out.caught, type |-> out.type,
                        value |-> out.value, calls |-> out.calls]
            /\ UNCHANGED <<transcriptions, course_modules, module_questions, prev, video, qin, procs, temp_audio>>

NextQuiz == QuizGenerate

SpecQuiz == InitQuiz /\ [][NextQuiz]_vars

-----------------------------------------------------------------------------
(* Properties of generate_quiz_questions (SpecQuiz) *)

\* The call made a model call and the model answered with a completion.
QuizCompleted ==
    /\ last.op = "generate_quiz_questions"
    /\ last.calls # <<>>
    /\ last.calls[1].response.kind = "ok"

\* A completion holds a fenced JSON block when an opening fence tagged json is followed,
\* somewhere later, by a closing fence.
HasFencedJsonBlock(c) ==
    \E i \in 1..Len(c) : \E j \in (i + 1)..Len(c) : c[i] = FenceJson /\ StartsWithFence(c[j])

\* C9: when the model call succeeds and the completion holds no fenced JSON
\* block, generate_quiz_questions returns exactly one question: its text is
\* "What is the main focus of " + text[:15] + "?", its options have exactly the
\* keys A, B, C, D and its correct_answer is "A".
C9_FallbackQuestion ==
    (QuizCompleted /\ ~HasFencedJsonBlock(last.calls[1].response.content)) =>
        /\ ~last.raised
        /\ Len(last.value) = 1
        /\ last.value[1].question = FocusPrefix \o SubSeq(last.text, 1, Min(15, Len(last.text))) \o <<"?">>
        /\ DOMAIN last.value[1].options = {"A", "B", "C", "D"}
        /\ last.value[1].correct_answer = "A"

C9_Witness ==
    /\ QuizCompleted
    /\ ~HasFencedJsonBlock(last.calls[1].response.content)
    /\ Len(last.calls[1].response.content) >= 3
    /\ Len(last.text) > 15
    /\ Len(last.value) = 1
    /\ Len(last.value[1].question) = Len(FocusPrefix) + 16

\* C10: when the model call returns no response, generate_quiz_questions
\* returns the empty sequence (no fallback question) and raises nothing.
C10_NoResponseEmpty ==
    (last.op = "generate_quiz_questions" /\ last.calls # <<>>
        /\ last.calls[1].response = NoResponse) =>
        (last.value = <<>> /\ ~last.raised)

C10_Witness ==
    /\ last.op = "generate_quiz_questions"
    /\ last.calls # <<>>
    /\ last.calls[1].response = NoResponse
    /\ last.calls[1].model = QUIZ_MODEL
    /\ last.value = <<>>

\* C11: whatever the model call answers (no response, a malformed envelope, a
\* fenced block that is not valid JSON, any other content),
\* generate_quiz_questions raises nothing and returns a sequence, and the
\* sequence is empty when an exception occurred while parsing.
C11_NeverPropagates ==
    (last.op = "generate_quiz_questions" /\ last.calls # <<>>) =>
        /\ ~last.raised
        /\ last.type = "list"
        /\ last.caught => last.value = <<>>

\* The fenced blocks tagged json of a completion: the opening fence and its
\* line break at i, the closing fence at j, which is the next fence, and
\* between them, line breaks aside, the one JSON text t.
FencedJsonBlocks(c) ==
    {b \in [i : 1..Len(c), j : 1..Len(c), t : JsonTexts] :
        /\ b.i + 1 < b.j
        /\ c[b.i] = FenceJson
        /\ c[b.i + 1] = Newline
        /\ c[b.j] = Fence
        /\ \A k \in (b.i + 1)..(b.j - 1) : ~StartsWithFence(c[k])
        /\ StripNewlines(SubSeq(c, b.i + 2, b.j - 1)) = <<b.t>>}

\* The texts of JSON arrays of question objects.
QuestionArrayTexts == {QuestionArrayText, OddQuestionArrayText}

\* C12: whenever the completion holds a fenced block tagged json whose body is
\* a valid JSON array of question objects, generate_quiz_questions returns
\* exactly that parsed sequence of questions.
C12_FencedJsonExtracted ==
    QuizCompleted =>
        \A b \in FencedJsonBlocks(last.calls[1].response.content) :
            b.t \in QuestionArrayTexts =>
                (last.type = "list" /\ last.value = JsonValueOf(b.t).value)

\* The completions in the format of the prompt's example response: the opening
\* fence, a line break, the array, and the closing fence right after it.
PromptExampleCompletions ==
    {<<FenceJson, Newline, t, Fence>> : t \in QuestionArrayTexts}

\* C13: for a completion in the format of the prompt's example response,
\* generate_quiz_questions returns exactly the fallback question
\* "What is the main focus of " + text[:15] + "?" with correct_answer "A", and
\* calls the model exactly once, with model deepseek-ai/DeepSeek-V3.
C13_PromptExampleFallsBack ==
    (QuizCompleted /\ last.calls[1].response.content \in PromptExampleCompletions) =>
        /\ ~last.raised
        /\ last.type = "list"
        /\ Len(last.value) = 1
        /\ last.value[1].question =
               FocusPrefix \o SubSeq(last.text, 1, Min(15, Len(last.text))) \o <<"?">>
        /\ last.value[1].correct_answer = "A"
        /\ Len(last.calls) = 1
        /\ last.calls[1].model = "deepseek-ai/DeepSeek-V3"

C13_Witness ==
    /\ QuizCompleted
    /\ last.calls[1].response.content = <<FenceJson, Newline, QuestionArrayText, Fence>>
    /\ last.text = <<"T","e","s","t"," ","t","e","x","t">>
    /\ Len(last.value) = 1
    /\ last.value[1].correct_answer = "A"

\* The QuizQuestion invariant: exactly the four labels A..D, and a
\* correct_answer among them.
ValidQuizQuestion(q) ==
    /\ DOMAIN q.options = {"A", "B", "C", "D"}
    /\ q.correct_answer \in DOMAIN q.options

\* C14: every question generate_quiz_questions returns has options with
\* exactly the labels A..D and a correct_answer that is one of its options'
\* keys, for every completion the model may return.
C14_QuestionInvariant ==
    (last.op = "generate_quiz_questions" /\ last.type = "list") =>
        \A k \in 1..Len(last.value) : ValidQuizQuestion(last.value[k])

\* C18: when text is empty or the requested count is less than 1,
\* generate_quiz_questions returns the empty sequence and makes no model call.
C18_Precondition ==
    (last.op = "generate_quiz_questions"
        /\ (last.text = <<>> \/ last.num_questions < 1)) =>
        /\ ~last.raised
        /\ last.value = <<>>
        /\ last.calls = <<>>

C18_Witness ==
    /\ last.op = "generate_quiz_questions"
    /\ last.text # <<>>
    /\ last.num_questions < 1
    /\ last.calls = <<>>

-----------------------------------------------------------------------------
(* SpecId: extract_video_id applied to one video reference *)

\* 11-character identifiers over [A-Za-z0-9_-]: a first and a last character
\* around a fixed middle, and the identifiers of the pipeline's videos.
IdEdgeChars == {"a", "Z", "0", "_", "-"}

IdTokens == {a \o "Xy_-01234" \o b : a \in IdEdgeChars, b \in IdEdgeChars} \cup VideoIds

\* The bare identifier, the standard, the shortened and the embed URL.
StandardPrefixes ==
    {"", "https://www.youtube.com/watch?v=", "https://youtu.be/",
     "https://www.youtube.com/embed/"}

\* References that hold no run of 11 identifier characters.
NoTokenReferences ==
    {[prefix |-> "https://example.com", id |-> ""]}
    \cup {[prefix |-> p, id |-> t] :
            p \in StandardPrefixes,
            t \in {"", "short", "abcdefghij", "abcde!fghijk", "test vid id"}}

InitId ==
    /\ transcriptions = EmptyCache
    /\ course_modules = EmptyCache
    /\ module_questions = <<>>
    /\ last = Idle
    /\ prev = Idle
    /\ qin = Idle
    /\ procs = <<>>
    /\ temp_audio = None
    /\ video \in [prefix : StandardPrefixes, id : IdTokens] \cup NoTokenReferences

\* One call extract_video_id(url) on the text of the reference.
IdExtract ==
    /\ last = Idle
    /\ last' = [op |-> "extract_video_id", url |-> video,
                value |-> SearchVideoId(UrlText(video))]
    /\ UNCHANGED <<transcriptions, course_modules, module_questions, prev, video, qin, procs, temp_audio>>

NextId == IdExtract

SpecId == InitId /\ [][NextId]_vars

-----------------------------------------------------------------------------
(* Properties of extract_video_id (SpecId) *)

\* C22: for every 11-character identifier ID over [A-Za-z0-9_-],
\* extract_video_id returns ID for the bare identifier, the standard URL, the
\* shortened URL and the embed URL; it returns None for a reference that holds
\* no 11-character identifier token.
C22_ExtractVideoId ==
    last.op = "extract_video_id" =>
        /\ (last.url.prefix \in StandardPrefixes /\ last.url.id \in IdTokens) =>
               last.value = Some(last.url.id)
        /\ last.url \in NoTokenReferences => last.value = None

C22_Witness ==
    /\ last.op = "extract_video_id"
    /\ last.url.prefix = "https://youtu.be/"
    /\ last.url.id = "-Xy_-01234_"
    /\ last.value = Some("-Xy_-01234_")

\* On the URLs the pipeline builds, the search on the text finds what
\* extract_video_id on [prefix, id] gives.
ExtractAgreesOnPipelineUrls ==
    last.op = "extract_video_id" =>
        \A id \in IdTokens \cup {"", "short"} :
            /\ SearchVideoId(UrlText(EmbedUrl(id))) = extract_video_id(EmbedUrl(id))
            /\ SearchVideoId(UrlText(WatchUrl(id))) = extract_video_id(WatchUrl(id))

-----------------------------------------------------------------------------
(* SpecTitle: generate_module_title applied to one module content *)

\* The most segments of a module content.
MaxTitleSegs == 3

TitleSegTexts ==
    {<<>>,
     <<" ", "h", "i">>,
     <<"T", "h", "i", "s", " ", "i", "s", " ", "a", " ", "t", "e", "s", "t", " ", "s", "e", "n", "t", "e", "n", "c", "e", ".">>,
     <<"a", " ", "b", " ", "c", " ", "d">>}

\* The length the test of generate_module_title cuts the expected text to.
TITLE_TEXT_LIMIT == 1024

\* A segment text one character longer than that.
LongText == [i \in 1..(TITLE_TEXT_LIMIT + 1) |-> "a"]

TitleCompletions ==
    {<<>>,
     <<" ">>,
     <<".", ".", ".">>,
     <<" ", "i", "n", "t", "r", "o", " ", "t", "o", " ", "p", "y", "t", "h", "o", "n", ".", " ">>}

TitleResponses == {NoResponse, BadEnvelope} \cup {Completion(c) : c \in TitleCompletions}

InitTitle ==
    /\ transcriptions = EmptyCache
    /\ course_modules = EmptyCache
    /\ module_questions = <<>>
    /\ last = Idle
    /\ prev = Idle
    /\ qin = Idle
    /\ procs = <<>>
    /\ temp_audio = None
    /\ \/ \E n \in 1..MaxTitleSegs :
          \E texts \in [1..n -> TitleSegTexts] :
              video = [content |-> [i \in 1..n |-> [text |-> texts[i]]]]
       \/ video = [content |-> <<[text |-> LongText]>>]

\* One call generate_module_title(content), whose model call is answered with resp.
TitleGenerate ==
    /\ last = Idle
    /\ \E resp \in TitleResponses :
        /\ last' = [op |-> "generate_module_title", content |-> video.content,
                    full_text |-> FullText(video.content),
                    text |-> TitleArgument(FullText(video.content)), response |-> resp,
                    title |-> generate_module_title(video.content, resp)]
        /\ UNCHANGED <<transcriptions, course_modules, module_questions, prev, video, qin, procs, temp_audio>>

NextTitle == TitleGenerate

SpecTitle == InitTitle /\ [][NextTitle]_vars

-----------------------------------------------------------------------------
(* Properties of generate_module_title (SpecTitle) *)

\* The model call failed or gave no usable content: no response, an envelope
\* that cannot be read, or a completion that is empty once stripped.
TitleModelFailed ==
    /\ last.op = "generate_module_title"
    /\ (last.response.kind = "ok" => Strip(last.response.content) = <<>>)

\* C15: for every module content and every outcome of the model call,
\* generate_module_title returns a title that is a non-empty string.
C15_TitleNonEmpty ==
    last.op = "generate_module_title" => last.title # <<>>

\* C16: when the model call fails or yields no usable content and the module
\* text has more than 10 whitespace-delimited words, the title is the first 10
\* words joined by single spaces, followed by "...".
C16_FallbackLong ==
    (TitleModelFailed /\ Len(Split(last.full_text)) > 10) =>
        /\ Len(last.title) >= 3
        /\ SubSeq(last.title, Len(last.title) - 2, Len(last.title)) = <<".", ".", ".">>
        /\ SubSeq(last.title, 1, Len(last.title) - 3) =
               JoinSpace(SubSeq(Split(last.full_text), 1, 10))

C16_Witness ==
    /\ TitleModelFailed
    /\ Len(Split(last.full_text)) = 12
    /\ Len(Split(last.title)) = 10

\* C17: when the model call fails or yields no usable content and the module
\* text has 10 or fewer words, the title is the input text trimmed of
\* surrounding whitespace.
C17_FallbackShort ==
    (TitleModelFailed /\ Len(Split(last.full_text)) <= 10) =>
        last.title = Strip(last.full_text)

\* C34: generate_module_title hands the generator the module's segment texts
\* joined by single spaces and cut to the first 1024 characters.
C34_TitleInput ==
    last.op = "generate_module_title" =>
        last.text = Take(JoinSpace([i \in 1..Len(last.content) |-> last.content[i].text]),
                         TITLE_TEXT_LIMIT)

-----------------------------------------------------------------------------
(* Spec: the two routes of main.py, called one after another *)

SegHi == [id |-> 0, start |-> 0, end |-> 10, text |-> <<"h", "i">>]

SegYo == [id |-> 1, start |-> 600, end |-> 610, text |-> <<"y", "o">>]

SegBlank == [id |-> 0, start |-> 0, end |-> 10, text |-> <<>>]

\* What Whisper may return for each video.
\* The second video is one the provider cannot reach.
ProviderTranscripts(id) ==
    IF id = "vid_0000001" THEN {<<>>, <<SegBlank>>, <<SegHi, SegYo>>} ELSE {}

ProviderOutcomes(id) ==
    {[kind |-> "extract_fails", segments |-> <<>>],
     [kind |-> "download_fails", segments |-> <<>>]}
    \cup {[kind |-> "ok", segments |-> t] : t \in ProviderTranscripts(id)}

PipeTitleResponses == {NoResponse, Completion(<<"i", "n", "t", "r", "o", ".">>)}

PipeQuizResponses ==
    {NoResponse,
     Completion(<<>>),
     Completion(<<FenceJson, Newline, QuestionArrayText, Newline, Fence>>)}

PipeDifficulties == {"easy", "medium"}

\* The module titles a caller can have seen, and two it cannot.
CachedTitles ==
    UNION {{JsonLoads(course_modules[k][1].modules)[i].title :
                i \in 1..Len(JsonLoads(course_modules[k][1].modules))} :
           k \in {x \in CacheKeys : course_modules[x] # None}}

RequestTitles == CachedTitles \cup {<<>>, <<"n", "o", "n", "e">>}

\* The call before, as prev keeps it for the request req.
PrevFor(req) == IF last.op # "none" /\ last.req = req THEN last ELSE Idle

Init ==
    /\ transcriptions = EmptyCache
    /\ course_modules = EmptyCache
    /\ module_questions = <<>>
    /\ last = Idle
    /\ prev = Idle
    /\ video = Idle
    /\ qin = Idle
    /\ procs = <<>>
    /\ temp_audio = None

\* An answer to a failed transcription that carries an empty module list.
ModulesFailure200(req, t) ==
    [req |-> req, op |-> "modules", status |-> 200, body |-> "modules", failed |-> TRUE,
     modules |-> <<>>, transcribed |-> t.transcribed,
     segmented |-> 0, titleCalls |-> 0, hit |-> FALSE]

\* The answer of modules() when transcribe_youtube_video returned None:
\* structure_transcript(None) raises TypeError at video['embed_url'], which
\* the route's except clause answers with the error and status 500.
ModulesFailure(req, t) ==
    [req |-> req, op |-> "modules", status |-> 500, body |-> "error", failed |-> TRUE,
     modules |-> <<>>, transcribed |-> t.transcribed,
     segmented |-> 0, titleCalls |-> 0, hit |-> FALSE]

\* main.py modules(): GET /modules?video_id=...
\* body is the key of the JSON answer, failed whether the transcription failed.
ModulesRoute ==
    \E video_id \in VideoIds \cup {""} :
    \E prov \in ProviderOutcomes(video_id) :
    \E resps \in [1..Len(prov.segments) -> PipeTitleResponses] :
        LET t == transcribe_youtube_video(transcriptions, WatchUrl(video_id), prov)
            s == structure_transcript(course_modules, t.value[1], resps)
            req == [op |-> "modules", video_id |-> video_id]
        IN  /\ prev' = PrevFor(req)
            /\ UNCHANGED <<module_questions, video, qin, procs, temp_audio>>
            /\ IF video_id = ""
               THEN /\ last' = [req |-> req, op |-> "modules", status |-> 400,
                                body |-> "error", failed |-> FALSE,
                                modules |-> <<>>, transcribed |-> 0, segmented |-> 0,
                                titleCalls |-> 0, hit |-> FALSE]
                    /\ UNCHANGED <<transcriptions, course_modules>>
               ELSE IF t.value = None
               THEN /\ last' = ModulesFailure(req, t)
                    /\ transcriptions' = t.cache
                    /\ UNCHANGED course_modules
               ELSE /\ last' = [req |-> req, op |-> "modules", status |-> 200,
                                body |-> "modules", failed |-> FALSE,
                                modules |-> s.modules, transcribed |-> t.transcribed,
                                segmented |-> s.segmented, titleCalls |-> s.titleCalls,
                                hit |-> s.hit]
                    /\ transcriptions' = t.cache
                    /\ course_modules' = s.cache

\* The answer of generate_quiz() once get_quiz has returned or raised q.
QuizAnswer(req, q, hadModules) ==
    [req |-> req, op |-> "generate_quiz", status |-> IF q.raised THEN 500 ELSE 200,
     error |-> q.error, quiz |-> q.value, hit |-> q.hit, served |-> q.served,
     quizCalls |-> Len(q.calls), hadModules |-> hadModules, mq |-> q.mq,
     generated |-> q.generated,
     callDifficulties |-> [k \in 1..Len(q.calls) |-> q.calls[k].prompt.difficulty]]

QuizBadRequest(req, mq) ==
    [req |-> req, op |-> "generate_quiz", status |-> 400,
     error |-> "Both video_id and module_title are required", quiz |-> None,
     hit |-> FALSE, served |-> "", quizCalls |-> 0, hadModules |-> FALSE, mq |-> mq,
     generated |-> <<>>, callDifficulties |-> <<>>]

\* A route that requires the video_id only.
generate_quiz_video_only(mq, cm, req, resps) ==
    IF req.video_id = ""
    THEN QuizBadRequest(req, mq)
    ELSE QuizAnswer(req,
                    get_quiz(mq, cm, req.video_id, req.module_title, req.difficulty, resps),
                    cm[req.video_id] # None)

\* generate_quiz() as a function of the request
generate_quiz(mq, cm, req, resps) ==
    IF req.video_id = "" \/ req.module_title = <<>>
    THEN QuizBadRequest(req, mq)
    ELSE QuizAnswer(req,
                    get_quiz(mq, cm, req.video_id, req.module_title, req.difficulty, resps),
                    cm[req.video_id] # None)

\* The answer without the quiz cache it leaves.
Observed(ans) == [f \in DOMAIN ans \ {"mq"} |-> ans[f]]

\* A quiz route that also empties the module cache.
QuizRouteDoClearing(req, ans) ==
    /\ prev' = PrevFor(req)
    /\ last' = Observed(ans)
    /\ module_questions' = ans.mq
    /\ course_modules' = EmptyCache
    /\ UNCHANGED <<transcriptions, video, qin, procs, temp_audio>>

QuizRouteDo(req, ans) ==
    /\ prev' = PrevFor(req)
    /\ last' = Observed(ans)
    /\ module_questions' = ans.mq
    /\ UNCHANGED <<transcriptions, course_modules, video, qin, procs, temp_audio>>

\* The most model calls a get_quiz for video_id can make: one for each cached module.
MaxQuizCalls(video_id) ==
    IF video_id \in VideoIds /\ course_modules[video_id] # None
    THEN Len(JsonLoads(course_modules[video_id][1].modules))
    ELSE 0

\* main.py generate_quiz(): GET /generate_quiz?video_id=...&module_title=...&difficulty=...
GenerateQuizRoute ==
    \E video_id \in VideoIds \cup {""} :
    \E module_title \in RequestTitles :
    \E difficulty \in PipeDifficulties :
    \E resps \in [1..MaxQuizCalls(video_id) -> PipeQuizResponses] :
        QuizRouteDo([op |-> "generate_quiz", video_id |-> video_id,
                     module_title |-> module_title, difficulty |-> difficulty],
                    generate_quiz(module_questions, course_modules,
                                  [op |-> "generate_quiz", video_id |-> video_id,
                                   module_title |-> module_title, difficulty |-> difficulty],
                                  resps))

Next == ModulesRoute \/ GenerateQuizRoute

Spec == Init /\ [][Next]_vars

-----------------------------------------------------------------------------
(* Properties of the pipeline (Spec) *)

\* get_quiz was called: the request passed the route's parameter check.
QuizCalled == last.op = "generate_quiz" /\ last.status # 400

\* C2: a get_quiz call answered from the quiz cache returns questions that
\* were generated for the difficulty it asks for, never those generated for
\* another difficulty.
C2_DifficultyIsolation ==
    (QuizCalled /\ last.hit) => last.served = last.req.difficulty

\* C3: of two consecutive successful get_modules calls for the same video, with
\* no cache cleared in between, transcription runs at most once and the
\* segmentation runs at most once in total, and the second call returns what
\* the first returned.
C3_IdempotentModules ==
    (last.op = "modules" /\ prev.op = "modules" /\ last.status = 200 /\ prev.status = 200) =>
        /\ prev.transcribed + last.transcribed <= 1
        /\ prev.segmented + last.segmented <= 1
        /\ last.modules = prev.modules

\* C4: once a get_quiz call has returned a sequence of questions, whatever the
\* model answered during it, the next get_quiz call with the same three
\* arguments makes no generative-model call.
C4_NoRepeatedModelCall ==
    (QuizCalled /\ prev.op = "generate_quiz" /\ prev.status = 200 /\ prev.quiz # None)
        => last.quizCalls = 0

\* C5: get_quiz for a video identifier with no cached module sequence raises
\* ValueError "No modules found in cache"; it returns nothing.
C5_NoModulesError ==
    (QuizCalled /\ ~last.hadModules) =>
        /\ last.status = 500
        /\ last.error = "No modules found in cache"
        /\ last.quiz = None
        /\ ~last.hit

C5_Witness ==
    /\ QuizCalled
    /\ ~last.hadModules
    /\ last.req.video_id = "vid_0000001"
    /\ last.req.module_title = <<"n", "o", "n", "e">>
    /\ last.status = 500
    /\ transcriptions["vid_0000001"] = None

\* The titles of the modules cached for a video.
CachedModulesOf(video_id) ==
    IF video_id \in VideoIds /\ course_modules[video_id] # None
    THEN JsonLoads(course_modules[video_id][1].modules)
    ELSE <<>>

TitleIsCached(video_id, module_title) ==
    \E i \in 1..Len(CachedModulesOf(video_id)) :
        CachedModulesOf(video_id)[i].title = module_title

\* The call returned the questions generated, during it, for a module titled
\* as requested.
ReturnedGeneratedMatch ==
    /\ last.status = 200
    /\ last.quiz # None
    /\ \E k \in 1..Len(last.generated) :
           /\ last.generated[k].module_title = last.req.module_title
           /\ last.generated[k].questions = last.quiz[1]

\* C19 as stated: on a quiz-cache miss get_quiz returns the questions
\* generated for the module whose title equals module_title, and when no cached
\* module has that title the result is None, not an error.
C19_MissAsStated ==
    (QuizCalled /\ ~last.hit) =>
        IF TitleIsCached(last.req.video_id, last.req.module_title)
        THEN ReturnedGeneratedMatch
        ELSE last.status = 200 /\ last.quiz = None

\* C19, amended: the same for a video that has cached modules; when it has
\* modules but none with that title the result is None, not an error.
C19_MissWithModules ==
    (QuizCalled /\ ~last.hit /\ CachedModulesOf(last.req.video_id) # <<>>) =>
        IF TitleIsCached(last.req.video_id, last.req.module_title)
        THEN ReturnedGeneratedMatch
        ELSE last.status = 200 /\ last.quiz = None

\* A miss served for the second of two modules, whose questions differ from
\* those generated for the first.
C19_Witness ==
    /\ QuizCalled
    /\ ~last.hit
    /\ Len(last.generated) = 2
    /\ last.generated[2].module_title = last.req.module_title
    /\ last.generated[1].module_title # last.req.module_title
    /\ last.generated[1].questions # last.generated[2].questions
    /\ last.quiz = Some(last.generated[2].questions)

\* C20: when transcription fails, the /modules route answers 500 with an
\* error, returns no module sequence, and leaves the module cache as it was.
C20_TranscriptFailureIsHard ==
    [][(last'.op = "modules" /\ last'.failed) =>
          /\ last'.status = 500
          /\ last'.body = "error"
          /\ course_modules' = course_modules]_vars

\* A failed transcription for a video whose modules are cached.
C20_Witness ==
    /\ last.op = "modules"
    /\ last.failed
    /\ last.status = 500
    /\ course_modules[last.req.video_id] # None
    /\ CachedModulesOf(last.req.video_id) # <<>>

\* C23: every get_quiz call leaves the transcript cache and the module cache
\* as they were, and every get_modules call leaves the quiz cache as it was.
C23_TierOwnership ==
    [][/\ last'.op = "generate_quiz" =>
            (transcriptions' = transcriptions /\ course_modules' = course_modules)
       /\ last'.op = "modules" => module_questions' = module_questions]_vars

\* A get_quiz call that generated and stored quizzes, with both other caches filled.
C23_Witness ==
    /\ QuizCalled
    /\ ~last.hit
    /\ last.quizCalls = 2
    /\ module_questions # <<>>
    /\ transcriptions[last.req.video_id] # None
    /\ course_modules[last.req.video_id] # None

\* The request lacks a parameter the route requires.
MissingParameter(req) ==
    \/ req.video_id = ""
    \/ req.op = "generate_quiz" /\ req.module_title = <<>>

\* C24: a /modules request without video_id, and a /generate_quiz request
\* without video_id or module_title, is answered 400 and runs no pipeline
\* stage: no transcription, segmentation or model call, and no cache changes.
C24_MissingParameters ==
    [][(last'.op \in {"modules", "generate_quiz"} /\ MissingParameter(last'.req)) =>
          /\ last'.status = 400
          /\ ~last'.hit
          /\ last'.op = "modules" =>
                (last'.transcribed = 0 /\ last'.segmented = 0 /\ last'.titleCalls = 0)
          /\ last'.op = "generate_quiz" => last'.quizCalls = 0
          /\ transcriptions' = transcriptions
          /\ course_modules' = course_modules
          /\ module_questions' = module_questions]_vars

\* A quiz request without module_title for a video whose modules are cached.
C24_Witness ==
    /\ last.op = "generate_quiz"
    /\ last.req.video_id # ""
    /\ last.req.module_title = <<>>
    /\ last.status = 400
    /\ CachedModulesOf(last.req.video_id) # <<>>

\* The cached modules whose text is not empty.
ModulesWithText(video_id) ==
    SelectSeq(CachedModulesOf(video_id), LAMBDA m : get_module_text(m) # <<>>)

\* C25: on a quiz-cache miss with modules cached, get_quiz runs the generator
\* exactly once for every cached module whose text is not empty, at the
\* requested difficulty, and afterwards the quiz cache holds for each such
\* module an entry for (video id, that module's title, difficulty) whose value
\* is the questions generated for that module.
C25_GeneratesForEveryModule ==
    (QuizCalled /\ ~last.hit /\ last.status = 200) =>
        /\ last.quizCalls = Len(ModulesWithText(last.req.video_id))
        /\ Len(last.generated) = Len(ModulesWithText(last.req.video_id))
        /\ \A k \in 1..Len(last.callDifficulties) :
               last.callDifficulties[k] = last.req.difficulty
        /\ \A k \in 1..Len(last.generated) :
               /\ last.generated[k].module_title = ModulesWithText(last.req.video_id)[k].title
               /\ <<last.req.video_id, last.generated[k].module_title>> \in DOMAIN module_questions
               /\ module_questions[<<last.req.video_id, last.generated[k].module_title>>]
                     = [difficulty |-> last.req.difficulty,
                        questions |-> JsonDumps(last.generated[k].questions)]

\* C31: a /modules request answered from the module cache and a get_quiz call
\* answered from the quiz cache leave all three caches as they were and return
\* the stored entry.
C31_HitsReadOnly ==
    [][/\ (last'.op = "modules" /\ last'.hit) =>
              /\ transcriptions' = transcriptions
              /\ course_modules' = course_modules
              /\ module_questions' = module_questions
              /\ last'.transcribed = 0 /\ last'.segmented = 0
              /\ last'.modules = CachedModulesOf(last'.req.video_id)
       /\ (last'.op = "generate_quiz" /\ last'.hit) =>
              /\ transcriptions' = transcriptions
              /\ course_modules' = course_modules
              /\ module_questions' = module_questions
              /\ last'.quizCalls = 0
              /\ last'.quiz = Some(JsonLoads(module_questions[
                                 <<last'.req.video_id, last'.req.module_title>>].questions))
      ]_vars

\* A quiz served from the cache to a request for another difficulty.
C31_Witness ==
    /\ QuizCalled
    /\ last.hit
    /\ last.served # last.req.difficulty
    /\ last.quiz # None /\ last.quiz[1] # <<>>
    /\ course_modules[last.req.video_id] # None

\* C36: when a get_quiz call misses the quiz cache and the next get_quiz call
\* with the same arguments hits it, both return the same value.
C36_MissHitCoherence ==
    (/\ QuizCalled /\ last.hit
     /\ prev.op = "generate_quiz" /\ prev.status = 200 /\ ~prev.hit)
    => last.quiz = prev.quiz

\* C37: a get_quiz call that misses the quiz cache for one module title leaves
\* the quiz-cache rows stored for the other module titles of the same video
\* as they were.
C37_OtherTitlesUntouched ==
    [][(last'.op = "generate_quiz" /\ last'.status # 400 /\ ~last'.hit) =>
          \A key \in DOMAIN module_questions :
              (key[1] = last'.req.video_id /\ key[2] # last'.req.module_title) =>
                  /\ key \in DOMAIN module_questions'
                  /\ module_questions'[key] = module_questions[key]]_vars

\* C38: once a /modules request for a video identifier has succeeded with at
\* least one module, every later get_quiz call with that identifier finds the
\* cached modules and does not raise the no-modules error.  As a property of
\* every step: such a /modules request leaves a non-empty row for the
\* identifier, no step removes or empties a non-empty row, and a get_quiz call
\* made while the row is there finds it.
C38_ModulesBeforeQuiz ==
    [][\A v \in VideoIds :
          /\ (/\ last'.op = "modules" /\ last'.req.video_id = v
              /\ last'.status = 200 /\ last'.modules # <<>>)
             => CachedModulesOf(v)' = last'.modules
          /\ CachedModulesOf(v) # <<>> => CachedModulesOf(v)' # <<>>
          /\ (/\ CachedModulesOf(v) # <<>>
              /\ last'.op = "generate_quiz" /\ last'.status # 400
              /\ last'.req.video_id = v)
             => /\ last'.hadModules
                /\ last'.error # "No modules found in cache"
                /\ last'.status = 200]_vars

\* A get_quiz call that generated from the modules an earlier /modules
\* request cached.
C38_Witness ==
    /\ QuizCalled
    /\ ~last.hit
    /\ last.hadModules
    /\ last.status = 200
    /\ last.quizCalls = Len(CachedModulesOf(last.req.video_id))
    /\ last.quizCalls >= 1

-----------------------------------------------------------------------------
(* SpecConc: two /modules requests served at the same time.  Each request   *)
(* runs transcribe_youtube_video and then structure_transcript, one access  *)
(* to shared state (a table or the file temp_audio.wav) per step.           *)

Procs == {1, 2}

SegLo == [id |-> 0, start |-> 0, end |-> 10, text |-> <<"l", "o">>]

\* What Whisper returns for the audio of each video.
AudioTranscript(audio) ==
    IF audio = "vid_0000001" THEN <<SegHi, SegYo>> ELSE <<SegLo>>

\* A request as the route receives it.
ConcRequest(video_id) ==
    [video_id |-> video_id, pc |-> "lookup", video |-> None, missed |-> FALSE,
     modules |-> None]

ConcTitleResponses ==
    {[k \in 1..2 |-> Completion(<<"i", "n", "t", "r", "o", ".">>)],
     [k \in 1..2 |-> Completion(<<"p", "a", "r", "t", ".">>)]}

InitConc ==
    /\ transcriptions = EmptyCache
    /\ course_modules = EmptyCache
    /\ module_questions = <<>>
    /\ last = Idle
    /\ prev = Idle
    /\ video = Idle
    /\ qin = Idle
    /\ procs \in [Procs -> {ConcRequest(v) : v \in VideoIds}]
    /\ temp_audio = None

\* transcribe_youtube_video up to "if cached_result: return cached_result".
ConcLookup(p) ==
    LET cached_result == get_transcription_from_db(transcriptions, procs[p].video_id)
    IN  /\ procs[p].pc = "lookup"
        /\ procs' = [procs EXCEPT ![p] =
                        IF cached_result # None
                        THEN [@ EXCEPT !.pc = "structure", !.video = cached_result]
                        ELSE [@ EXCEPT !.pc = "download"]]
        /\ UNCHANGED <<transcriptions, course_modules, module_questions, last, prev,
                       video, qin, temp_audio>>

\* ydl.download([url]) with outtmpl temp_audio and the wav post-processor:
\* the file temp_audio.wav now holds this video's audio.
ConcDownload(p) ==
    /\ procs[p].pc = "download"
    /\ temp_audio' = Some(procs[p].video_id)
    /\ procs' = [procs EXCEPT ![p].pc = "transcribe"]
    /\ UNCHANGED <<transcriptions, course_modules, module_questions, last, prev,
                   video, qin>>

\* model.transcribe('temp_audio.wav'): the transcript of whatever the file
\* holds; without the file it raises, the except clause returns None and the
\* route answers 500.
ConcTranscribe(p) ==
    /\ procs[p].pc = "transcribe"
    /\ procs' = [procs EXCEPT ![p] =
                    IF temp_audio = None
                    THEN [@ EXCEPT !.pc = "failed"]
                    ELSE [@ EXCEPT !.pc = "exists",
                                   !.video = Some([title |-> <<"v">>,
                                                   embed_url |-> EmbedUrl(procs[p].video_id),
                                                   duration |-> 0,
                                                   transcript |-> AudioTranscript(temp_audio[1])])]]
    /\ UNCHANGED <<transcriptions, course_modules, module_questions, last, prev,
                   video, qin, temp_audio>>

\* if os.path.exists('temp_audio.wav'):
ConcExists(p) ==
    /\ procs[p].pc = "exists"
    /\ procs' = [procs EXCEPT ![p].pc = IF temp_audio = None THEN "save" ELSE "remove"]
    /\ UNCHANGED <<transcriptions, course_modules, module_questions, last, prev,
                   video, qin, temp_audio>>

\* os.remove('temp_audio.wav'): raises when the file is gone by now.
ConcRemove(p) ==
    /\ procs[p].pc = "remove"
    /\ procs' = [procs EXCEPT ![p].pc = IF temp_audio = None THEN "failed" ELSE "save"]
    /\ temp_audio' = None
    /\ UNCHANGED <<transcriptions, course_modules, module_questions, last, prev,
                   video, qin>>

\* save_transcription_to_db(video_id, video_info); return video_info.
ConcSave(p) ==
    /\ procs[p].pc = "save"
    /\ transcriptions' = save_transcription_to_db(transcriptions, procs[p].video_id,
                                                  procs[p].video[1])
    /\ procs' = [procs EXCEPT ![p].pc = "structure"]
    /\ UNCHANGED <<course_modules, module_questions, last, prev, video, qin, temp_audio>>

\* structure_transcript up to the cache write: the lookup and, on a miss, the
\* segmentation with its title calls, which touch no shared state.
ConcStructure(p) ==
    \E resps \in ConcTitleResponses :
        LET cached_modules == get_cached_modules(course_modules,
                                  extract_video_id(procs[p].video[1].embed_url))
        IN  /\ procs[p].pc = "structure"
            /\ procs' = [procs EXCEPT ![p] =
                            IF Truthy(cached_modules)
                            THEN [@ EXCEPT !.pc = "done", !.modules = cached_modules]
                            ELSE [@ EXCEPT !.pc = "write", !.missed = TRUE,
                                           !.modules = Some(SegmentTranscript(
                                               procs[p].video[1].transcript,
                                               resps).modules)]]
            /\ UNCHANGED <<transcriptions, course_modules, module_questions, last, prev,
                           video, qin, temp_audio>>

\* save_modules_to_cache(video_id, modules); return modules.  last keeps the
\* request that wrote the module cache most recently.
ConcWrite(p) ==
    /\ procs[p].pc = "write"
    /\ course_modules' = save_modules_to_cache(course_modules,
                             extract_video_id(procs[p].video[1].embed_url),
                             procs[p].modules[1])
    /\ procs' = [procs EXCEPT ![p].pc = "done"]
    /\ last' = [op |-> "save_modules_to_cache", proc |-> p]
    /\ UNCHANGED <<transcriptions, module_questions, prev, video, qin, temp_audio>>

\* A /generate_quiz request served between the steps above; it reads the
\* module cache once and writes the quiz cache only.
ConcQuiz ==
    \E video_id \in VideoIds :
    \E module_title \in RequestTitles :
    \E resps \in [1..MaxQuizCalls(video_id) -> {NoResponse}] :
        /\ module_questions' = get_quiz(module_questions, course_modules, video_id,
                                        module_title, "easy", resps).mq
        /\ UNCHANGED <<transcriptions, course_modules, last, prev, video, qin, procs,
                       temp_audio>>

NextConc ==
    \/ \E p \in Procs : ConcLookup(p)
    \/ \E p \in Procs : ConcDownload(p)
    \/ \E p \in Procs : ConcTranscribe(p)
    \/ \E p \in Procs : ConcExists(p)
    \/ \E p \in Procs : ConcRemove(p)
    \/ \E p \in Procs : ConcSave(p)
    \/ \E p \in Procs : ConcStructure(p)
    \/ \E p \in Procs : ConcWrite(p)
    \/ ConcQuiz

SpecConc == InitConc /\ [][NextConc]_vars

-----------------------------------------------------------------------------
(* Properties of concurrent requests (SpecConc) *)

ConcDone(p) == procs[p].pc = "done"

ConcFailed(p) == procs[p].pc = "failed"

\* The module-cache row of a video, parsed.
ConcEntry(video_id) == JsonLoads(course_modules[video_id][1].modules)

\* Once two requests for one video have both missed the module cache and
\* returned, the row is the module list of the one that wrote last.
LastWriterWins ==
    \A p, q \in Procs :
        (p # q /\ procs[p].video_id = procs[q].video_id
              /\ procs[p].missed /\ procs[q].missed /\ ConcDone(p) /\ ConcDone(q))
        => /\ last.op = "save_modules_to_cache"
           /\ course_modules[procs[p].video_id] # None
           /\ ConcEntry(procs[p].video_id) = procs[last.proc].modules[1]

C28_OwnAudio ==
    \A p, q \in Procs :
        (p # q /\ procs[p].video_id # procs[q].video_id)
        => /\ ~ConcFailed(p)
           /\ procs[p].video # None
                 => procs[p].video[1].transcript = AudioTranscript(procs[p].video_id)
           /\ transcriptions[procs[p].video_id] # None
                 => JsonLoads(transcriptions[procs[p].video_id][1].transcript)
                        = AudioTranscript(procs[p].video_id)

\* C35: under every interleaving of two /modules requests for one video, once
\* both have completed, the module list each one returned is the list the
\* module cache holds for the video.
C35_ReturnedAgreesWithCache ==
    \A p, q \in Procs :
        (/\ p # q
         /\ procs[p].video_id = procs[q].video_id
         /\ ConcDone(p)
         /\ ConcDone(q) \/ ConcFailed(q))
        => /\ course_modules[procs[p].video_id] # None
           /\ procs[p].modules[1] = ConcEntry(procs[p].video_id)

\* A complete module list: every module is closed with a title and its
\* end_time, and the contents together are all the segments of a transcript.
CompleteModules(mods) ==
    /\ \A k \in 1..Len(mods) : WellFormedModule(mods[k]) /\ mods[k].title # <<>>
    /\ \E audio \in VideoIds : ConcatContents(mods) = AudioTranscript(audio)

\* C29: at every point of every interleaving of /modules and /generate_quiz
\* requests, the module-cache row of a video is absent or a complete module
\* list.
C29_NoPartialEntry ==
    \A k \in CacheKeys : course_modules[k] # None => CompleteModules(ConcEntry(k))

\* Both requests are past the segmentation, one has written its row and the
\* other has not yet.
C29_Witness ==
    /\ C29_NoPartialEntry
    /\ \E p, q \in Procs :
          /\ procs[p].pc = "done" /\ procs[p].missed
          /\ procs[q].pc = "write"
          /\ procs[p].video_id = procs[q].video_id
          /\ course_modules[procs[p].video_id] # None
          /\ Len(ConcEntry(procs[p].video_id)) = 2
          /\ procs[q].modules # procs[p].modules

-----------------------------------------------------------------------------
(* SpecRun: one /modules request and one /generate_quiz request, each run   *)
(* statement by statement with one loop iteration per step.  A call to the  *)
(* provider or to a model is a step that returns or fails.                  *)

RunTitles == {<<"I", "n", "t", "r", "o">>, <<"n", "o", "n", "e">>}

\* The /modules request as the route receives it.
RunModulesStart(video_id) ==
    [video_id |-> video_id, pc |-> "transcribe", video |-> None,
     st |-> [modules |-> <<>>, current |-> NewModule, calls |-> 0], i |-> 1,
     modules |-> None]

\* The get_quiz call as the route makes it.
RunQuizStart(video_id, module_title, difficulty) ==
    [video_id |-> video_id, module_title |-> module_title, difficulty |-> difficulty,
     pc |-> "lookup", modules |-> <<>>, quizzes |-> <<>>, i |-> 1, value |-> None]

InitRun ==
    /\ transcriptions = EmptyCache
    /\ course_modules = EmptyCache
    /\ module_questions = <<>>
    /\ last = Idle
    /\ prev = Idle
    /\ video = Idle
    /\ qin = Idle
    /\ temp_audio = None
    /\ \E module_title \in RunTitles :
       \E difficulty \in PipeDifficulties :
           procs = [m |-> RunModulesStart("vid_0000001"),
                    q |-> RunQuizStart("vid_0000001", module_title, difficulty)]

\* video_transcript = transcribe_youtube_video(...); with None the call of
\* structure_transcript raises and the route answers 500.
RunTranscribe ==
    \E prov \in ProviderOutcomes(procs.m.video_id) :
        LET t == transcribe_youtube_video(transcriptions, WatchUrl(procs.m.video_id), prov)
        IN  /\ procs.m.pc = "transcribe"
            /\ transcriptions' = t.cache
            /\ procs' = [procs EXCEPT !.m =
                            IF t.value = None
                            THEN [@ EXCEPT !.pc = "failed"]
                            ELSE [@ EXCEPT !.pc = "lookup", !.video = t.value]]
            /\ UNCHANGED <<course_modules, module_questions, last, prev, video, qin,
                           temp_audio>>

\* structure_transcript: "if cached_modules: return cached_modules".
RunLookup ==
    LET cached_modules == get_cached_modules(course_modules,
                              extract_video_id(procs.m.video[1].embed_url))
    IN  /\ procs.m.pc = "lookup"
        /\ procs' = [procs EXCEPT !.m =
                        IF Truthy(cached_modules)
                        THEN [@ EXCEPT !.pc = "done", !.modules = cached_modules]
                        ELSE [@ EXCEPT !.pc = "loop"]]
        /\ UNCHANGED <<transcriptions, course_modules, module_questions, last, prev,
                       video, qin, temp_audio>>

\* One iteration of "for entry in video['transcript']".
RunLoop ==
    \E resp \in PipeTitleResponses :
        /\ procs.m.pc = "loop"
        /\ procs.m.i <= Len(procs.m.video[1].transcript)
        /\ procs' = [procs EXCEPT
                        !.m.st = LoopBody(procs.m.st,
                                          procs.m.video[1].transcript[procs.m.i],
                                          [k \in 1..(procs.m.st.calls + 1) |-> resp]),
                        !.m.i = procs.m.i + 1]
        /\ UNCHANGED <<transcriptions, course_modules, module_questions, last, prev,
                       video, qin, temp_audio>>

\* The loop is exhausted: "Add the last module if it has content".
RunLoopEnd ==
    \E resp \in PipeTitleResponses :
        /\ procs.m.pc = "loop"
        /\ procs.m.i > Len(procs.m.video[1].transcript)
        /\ procs' = [procs EXCEPT
                        !.m.st = AddLastModule(procs.m.st,
                                               [k \in 1..(procs.m.st.calls + 1) |-> resp]),
                        !.m.pc = "write"]
        /\ UNCHANGED <<transcriptions, course_modules, module_questions, last, prev,
                       video, qin, temp_audio>>

\* save_modules_to_cache(video_id, modules); return modules.
RunWrite ==
    /\ procs.m.pc = "write"
    /\ course_modules' = save_modules_to_cache(course_modules,
                             extract_video_id(procs.m.video[1].embed_url),
                             procs.m.st.modules)
    /\ procs' = [procs EXCEPT !.m.pc = "done", !.m.modules = Some(procs.m.st.modules)]
    /\ UNCHANGED <<transcriptions, module_questions, last, prev, video, qin, temp_audio>>

RunModulesStep == RunTranscribe \/ RunLookup \/ RunLoop \/ RunLoopEnd \/ RunWrite

\* get_quiz: "if cached_questions: return cached_questions".
RunQuizLookup ==
    LET cached_questions == get_cached_quiz(module_questions, procs.q.video_id,
                                            procs.q.module_title)
    IN  /\ procs.q.pc = "lookup"
        /\ procs' = [procs EXCEPT !.q =
                        IF Truthy(cached_questions)
                        THEN [@ EXCEPT !.pc = "done", !.value = cached_questions]
                        ELSE [@ EXCEPT !.pc = "modules"]]
        /\ UNCHANGED <<transcriptions, course_modules, module_questions, last, prev,
                       video, qin, temp_audio>>

\* A get_quiz that asks for the modules again until there are some.
RunQuizNoModulesWaiting(r) == r

\* raise ValueError("No modules found in cache"): the error leaves get_quiz
\* and the route answers 500.
RunQuizNoModules(r) == [r EXCEPT !.pc = "failed"]

\* generate_all_module_quizzes: modules = get_cached_modules(video_id).
RunQuizModules ==
    LET modules == get_cached_modules(course_modules, Some(procs.q.video_id))
    IN  /\ procs.q.pc = "modules"
        /\ procs' = [procs EXCEPT !.q =
                        IF ~Truthy(modules)
                        THEN RunQuizNoModules(@)
                        ELSE [@ EXCEPT !.pc = "generate", !.modules = modules[1]]]
        /\ UNCHANGED <<transcriptions, course_modules, module_questions, last, prev,
                       video, qin, temp_audio>>

\* One iteration of "for i, module in enumerate(modules)".
RunQuizGenerate ==
    \E resp \in PipeQuizResponses :
        LET module == procs.q.modules[procs.q.i]
            st == QuizLoopText([mq |-> module_questions,
                                module_quizzes |-> procs.q.quizzes, calls |-> <<>>],
                               module, get_module_text(module), procs.q.video_id,
                               procs.q.difficulty, <<resp>>)
        IN  /\ procs.q.pc = "generate"
            /\ procs.q.i <= Len(procs.q.modules)
            /\ module_questions' = st.mq
            /\ procs' = [procs EXCEPT !.q.quizzes = st.module_quizzes,
                                      !.q.i = procs.q.i + 1]
            /\ UNCHANGED <<transcriptions, course_modules, last, prev, video, qin,
                           temp_audio>>

\* The loop is exhausted; get_quiz searches the quizzes for the title.
RunQuizFind ==
    /\ procs.q.pc = "generate"
    /\ procs.q.i > Len(procs.q.modules)
    /\ procs' = [procs EXCEPT !.q.pc = "done",
                              !.q.value = FirstQuizFor(procs.q.quizzes,
                                                       procs.q.module_title)]
    /\ UNCHANGED <<transcriptions, course_modules, module_questions, last, prev,
                   video, qin, temp_audio>>

RunQuizStep == RunQuizLookup \/ RunQuizModules \/ RunQuizGenerate \/ RunQuizFind

NextRun == RunModulesStep \/ RunQuizStep

\* Each request's thread keeps being scheduled while it has a step to take.
SpecRun ==
    /\ InitRun
    /\ [][NextRun]_vars
    /\ WF_vars(RunModulesStep)
    /\ WF_vars(RunQuizStep)

-----------------------------------------------------------------------------
(* Properties of running requests (SpecRun) *)

RunComplete(r) == r.pc \in {"done", "failed"}

\* C33: every /modules request and every get_quiz call eventually completes,
\* returning a result or signalling an error, given that every provider call
\* and every model call returns or fails.
C33_Termination == <>(RunComplete(procs.m) /\ RunComplete(procs.q))

\* Both requests have returned after running their loops over two elements.
C33_Witness ==
    /\ procs.m.pc = "done" /\ procs.m.i = 3 /\ Len(procs.m.st.modules) = 2
    /\ procs.q.pc = "done" /\ procs.q.i = 3 /\ Len(procs.q.quizzes) = 2

====
